---- MODULE Spec2Model ----
(***************************************************************************)
(* The to-do list application: the Task table, the User table, one         *)
(* browser session, and the views of tasks/views.py and                    *)
(* authentication/views.py. Spec and PopulatedSpec handle one request at   *)
(* a time; ConcurrentSpec has two workers whose queries and writes         *)
(* interleave. The variable last keeps the request handled last and its    *)
(* response, so that properties of one request are properties of one step. *)
(***************************************************************************)
EXTENDS Integers, Sequences, FiniteSets

\* ------------------------------------------------------------------ bounds
\* The steps of one run: requests handled and ticks of the clock.
MaxSteps == 5

\* ------------------------------------------------------------ value spaces
\* request.user of a session that is not logged in (AnonymousUser).
Anonymous == 0

Usernames == {"alice", "bob"}
Passwords == {"pw1", "pw2"}
Methods == {"GET", "POST"}
\* The signup requests: a GET of the page, or a POST of the form
\* <<method, username, password1, password2>>.
SignUpRequests ==
    {<<"GET", "", "", "">>,
     <<"POST", "alice", "pw1", "pw1">>, <<"POST", "alice", "pw1", "pw2">>,
     <<"POST", "bob", "pw2", "pw2">>, <<"POST", "bob", "pw2", "pw1">>,
     <<"POST", "", "pw1", "pw1">>}
\* The login requests: <<method, username, password>>.
LoginRequests ==
    {<<"GET", "", "">>} \cup
    {<<"POST", u, p>> : u \in Usernames, p \in Passwords}

\* The requests of the task form: a GET of the page, or a POST of the form
\* <<method, title, description, completed, user>>. Text is a sequence of
\* characters; the completed checkbox is sent ("on") or not sent (""); user
\* is a field the form does not have, posted with the id of a user or not
\* posted (0).
TaskFormRequests ==
    {<<"GET", <<>>, <<>>, "", 0>>,
     <<"POST", <<>>, <<"b">>, "", 0>>,
     <<"POST", <<" ">>, <<>>, "on", 0>>,
     <<"POST", <<" ", "a">>, <<"b", " ">>, "", 0>>,
     <<"POST", <<"A", "b">>, <<>>, "", 0>>,
     <<"POST", <<"A", "b">>, <<>>, "on", 0>>,
     <<"POST", <<"A", "b">>, <<>>, "on", 1>>}
\* The query parameter of the list: not sent, sent empty, or a text.
NoQuery == [sent |-> FALSE, text |-> <<>>]
Query(text) == [sent |-> TRUE, text |-> text]
QueryParams ==
    {NoQuery, Query(<<>>), Query(<<"a">>), Query(<<"B">>), Query(<<"a", "b">>)}

\* The date_from / date_to parameter: not sent (or empty), a string that is
\* no date, or a date and time.
NoDate == [kind |-> "absent", t |-> 0]
BadDate == [kind |-> "invalid", t |-> 0]
Date(t) == [kind |-> "instant", t |-> t]
\* The <<date_from, date_to>> pairs requested.
DateRanges ==
    {<<NoDate, NoDate>>, <<BadDate, NoDate>>, <<NoDate, BadDate>>} \cup
    {<<Date(1), NoDate>>, <<NoDate, Date(0)>>}
\* The list requests: <<query, date_from, date_to>>, a query or a date range
\* alone, or a text query with a date range.
ListRequests ==
    {<<q, NoDate, NoDate>> : q \in QueryParams} \cup
    {<<q, d[1], d[2]>> : q \in {NoQuery, Query(<<"a">>)}, d \in DateRanges}

\* ------------------------------------------------------------------- state
VARIABLES
    users,      \* auth User table: id -> [username, password]
    tasks,      \* Task table: id -> row
    nextTaskId, \* the next primary key of the Task table
    session,    \* the browser session's user id, or Anonymous
    clock,      \* timezone.now()
    last,       \* the last request and its response
    inflight    \* worker -> the request it is handling, between its queries

vars == <<users, tasks, nextTaskId, session, clock, last, inflight>>

\* The workers that handle requests at the same time.
Workers == {1, 2}
\* A worker that is handling no request.
Idle ==
    [op |-> "none", method |-> "GET", pk |-> 0, data |-> <<>>,
     task |-> [title |-> <<>>, description |-> <<>>, completed |-> FALSE,
               created_at |-> 0, updated_at |-> 0, user |-> 0]]
Busy == {w \in Workers : inflight[w] # Idle}

\* The steps taken so far: requests handled or begun, and ticks of the clock.
Steps == last.req.n + Cardinality(Busy) + clock
\* The run may take one more step.
CanStep == Steps < MaxSteps

\* ----------------------------------------------------------- text helpers
IsSpace(c) == c = " "

RECURSIVE LStrip(_)
LStrip(s) == IF s # <<>> /\ IsSpace(Head(s)) THEN LStrip(Tail(s)) ELSE s

RECURSIVE RStrip(_)
RStrip(s) ==
    IF s # <<>> /\ IsSpace(s[Len(s)]) THEN RStrip(SubSeq(s, 1, Len(s) - 1)) ELSE s

\* forms.CharField(strip=True).to_python: the submitted value, stripped.
Strip(s) == RStrip(LStrip(s))

LowerChar(c) ==
    CASE c = "A" -> "a"
      [] c = "B" -> "b"
      [] OTHER -> c

Lower(s) == [i \in 1..Len(s) |-> LowerChar(s[i])]

\* needle occurs in hay as a contiguous run of characters.
Contains(hay, needle) ==
    \E i \in 0..(Len(hay) - Len(needle)) :
        SubSeq(hay, i + 1, i + Len(needle)) = needle

\* IContains, comparing the characters as they are.
IContainsExact(hay, needle) == Contains(hay, needle)

\* The icontains lookup: case-insensitive containment.
IContains(hay, needle) == Contains(Lower(hay), Lower(needle))

\* --------------------------------------------------------------- responses
\* A URL of the site: a view name, the task it names and its next parameter.
Url(view, pk, next) == [view |-> view, pk |-> pk, next |-> next]
\* A path without a query string, as a value of the next parameter.
Path(view, pk) == <<view, pk>>
\* No next parameter.
NoNext == <<>>
NoUrl == Url("", 0, NoNext)
\* The URL a next parameter names.
UrlOfPath(p) == Url(p[1], p[2], NoNext)

\* Found, looking the row up by pk alone.
FoundAnyOwner(pk, user) == pk \in DOMAIN tasks

\* get_object_or_404(Task, pk=pk, user=request.user) finds a row.
Found(pk, user) == pk \in DOMAIN tasks /\ tasks[pk].user = user

\* The request being handled: the view, the method, the task the URL names,
\* the submitted data and request.user. Three fields remember what came
\* before: n counts the requests, was is the completed flag the view found
\* in the row, and again tells a toggle that follows a successful toggle of
\* the same task.
Request(op, method, pk, data) ==
    [n |-> last.req.n + 1,
     op |-> op, method |-> method, pk |-> pk, data |-> data, user |-> session,
     was |-> IF Found(pk, session) THEN tasks[pk].completed ELSE FALSE,
     again |-> /\ op = "task_toggle_complete"
               /\ last.req.op = op /\ last.req.pk = pk
               /\ last.location.view = "task_list"]

\* A rendered template.
Render(req, template, listing) ==
    [req |-> req, status |-> 200, template |-> template, location |-> NoUrl,
     listing |-> listing]

Redirect(req, url) ==
    [req |-> req, status |-> 302, template |-> "", location |-> url,
     listing |-> <<>>]

\* Http404 raised by get_object_or_404.
NotFound(req) ==
    [req |-> req, status |-> 404, template |-> "", location |-> NoUrl,
     listing |-> <<>>]

\* An exception that leaves the view.
ServerError(req) ==
    [req |-> req, status |-> 500, template |-> "", location |-> NoUrl,
     listing |-> <<>>]

NoRequest ==
    [n |-> 0,
     op |-> "none", method |-> "GET", pk |-> 0, data |-> <<>>, user |-> Anonymous,
     was |-> FALSE, again |-> FALSE]

Init ==
    /\ users = <<>>
    /\ tasks = [i \in {} |-> 0]
    /\ nextTaskId = 1
    /\ session = Anonymous
    /\ clock = 0
    /\ last = Render(NoRequest, "", <<>>)
    /\ inflight = [w \in Workers |-> Idle]

\* ---------------------------------------------------------------- settings
\* settings.LOGIN_URL: where login_required sends an anonymous request.
LoginUrl == "login"
\* settings.LOGIN_REDIRECT_URL: where a login without next parameter lands.
LoginRedirectUrl == Url("home", 0, NoNext)
\* settings.LOGOUT_REDIRECT_URL: where LogoutView lands.
LogoutRedirectUrl == Url("home", 0, NoNext)

\* ---------------------------------------------------------- authentication
UserIds == 1..Len(users)

\* User.objects.filter(username=...).exists(): the unique constraint of
\* auth.User.username, as the signup form validates it.
UsernameTaken(username) == \E u \in UserIds : users[u].username = username

\* UserCreationFormValid, without the check that the username is free.
UserCreationFormValidNoUnique(username, password1, password2) ==
    /\ username # ""
    /\ password1 = password2

\* UserCreationForm.is_valid(): username required and not taken, the two
\* password fields equal.
UserCreationFormValid(username, password1, password2) ==
    /\ username # ""
    /\ ~UsernameTaken(username)
    /\ password1 = password2

\* Authenticate, not checking the password.
AuthenticateAnyPassword(username, password) ==
    IF \E u \in UserIds : users[u].username = username
    THEN CHOOSE u \in UserIds : users[u].username = username
    ELSE Anonymous

\* AuthenticationForm.is_valid(): authenticate() finds the user whose
\* username and password are the submitted ones; Anonymous when there is none.
Authenticate(username, password) ==
    IF \E u \in UserIds : users[u].username = username /\ users[u].password = password
    THEN CHOOSE u \in UserIds :
            users[u].username = username /\ users[u].password = password
    ELSE Anonymous

\* SignUp, the new user saved without login(request, user).
SignUpNoLogin(method, username, password1, password2) ==
    LET req == Request("signup", method, 0, <<username, password1, password2>>) IN
    /\ CanStep
    /\ IF method = "POST" /\ UserCreationFormValid(username, password1, password2)
       THEN /\ users' = Append(users, [username |-> username, password |-> password1])
            /\ last' = Redirect(req, Url("login", 0, NoNext))
            /\ UNCHANGED session
       ELSE /\ last' = Render(req, "authentication/signup.html", <<>>)
            /\ UNCHANGED <<users, session>>
    /\ UNCHANGED <<tasks, nextTaskId, clock, inflight>>

\* SignUpView (CreateView): GET renders the form; POST validates it, saves
\* the user, logs the request in as that user and redirects to success_url.
SignUp(method, username, password1, password2) ==
    LET req == Request("signup", method, 0, <<username, password1, password2>>) IN
    /\ CanStep
    /\ IF method = "POST" /\ UserCreationFormValid(username, password1, password2)
       THEN /\ users' = Append(users, [username |-> username, password |-> password1])
            /\ session' = Len(users) + 1
            /\ last' = Redirect(req, Url("login", 0, NoNext))
       ELSE /\ last' = Render(req, "authentication/signup.html", <<>>)
            /\ UNCHANGED <<users, session>>
    /\ UNCHANGED <<tasks, nextTaskId, clock, inflight>>

\* CustomLoginView (LoginView): GET renders the form; POST authenticates,
\* logs the session in and redirects to the next parameter, or to
\* LOGIN_REDIRECT_URL without one.
Login(method, username, password, next) ==
    LET req == Request("login", method, 0, <<username, password, next>>)
        user == Authenticate(username, password) IN
    /\ CanStep
    /\ IF method = "POST" /\ user # Anonymous
       THEN /\ session' = user
            /\ last' = Redirect(req, IF next # NoNext THEN UrlOfPath(next)
                                                   ELSE LoginRedirectUrl)
       ELSE /\ last' = Render(req, "authentication/login.html", <<>>)
            /\ UNCHANGED session
    /\ UNCHANGED <<users, tasks, nextTaskId, clock, inflight>>

\* Logout, redirecting without flushing the session.
LogoutKeepsSession(method) ==
    LET req == Request("logout", method, 0, <<>>) IN
    /\ CanStep
    /\ last' = Redirect(req, LogoutRedirectUrl)
    /\ UNCHANGED <<users, tasks, nextTaskId, session, clock, inflight>>

\* The logout route (django.contrib.auth.views.LogoutView): logout(request)
\* flushes the session, then redirects.
Logout(method) ==
    LET req == Request("logout", method, 0, <<>>) IN
    /\ CanStep
    /\ session' = Anonymous
    /\ last' = Redirect(req, LogoutRedirectUrl)
    /\ UNCHANGED <<users, tasks, nextTaskId, clock, inflight>>

\* The next parameters a login form is posted with: none, or the one of the
\* login URL the browser was last redirected to.
LoginNexts ==
    {NoNext} \cup
    (IF last.status = 302 /\ last.location.view = LoginUrl
     THEN {last.location.next} ELSE {})

AuthNext ==
    \/ \E r \in SignUpRequests : SignUp(r[1], r[2], r[3], r[4])
    \/ \E r \in LoginRequests, n \in LoginNexts : Login(r[1], r[2], r[3], n)
    \/ \E m \in Methods : Logout(m)

\* ------------------------------------------------------------------- tasks
\* A row of the Task table.
Task(title, description, completed, created_at, updated_at, user) ==
    [title |-> title, description |-> description, completed |-> completed,
     created_at |-> created_at, updated_at |-> updated_at, user |-> user]

\* LoginRequired, the redirect losing the requested path.
LoginRequiredNoNext(req, path) == Redirect(req, Url("login", 0, NoNext))

\* @login_required: an anonymous request is redirected to LOGIN_URL with the
\* requested path as next, and the view is not called.
LoginRequired(req, path) == Redirect(req, Url(LoginUrl, 0, path))

\* TaskForm.cleaned_data: title and description stripped, the checkbox as a
\* boolean (False when it was not sent).
TaskFormClean(title, description, completed) ==
    [title |-> Strip(title), description |-> Strip(description),
     completed |-> (completed = "on")]

\* TaskFormValid, the title not required.
TaskFormValidBlankTitle(title, description, completed) == TRUE

\* TaskForm.is_valid(): title is required, description may be blank.
TaskFormValid(title, description, completed) ==
    TaskFormClean(title, description, completed).title # <<>>

\* UpdatedRow, the save also stamping created_at.
UpdatedRowNewCreatedAt(row, form, now) ==
    [row EXCEPT !.title = form.title, !.description = form.description,
                !.completed = form.completed, !.updated_at = now,
                !.created_at = now]

\* form.save() on an instance: the form's fields written into the row, and
\* updated_at (auto_now) set by the save.
UpdatedRow(row, form, now) ==
    [row EXCEPT !.title = form.title, !.description = form.description,
                !.completed = form.completed, !.updated_at = now]

\* ToggledRow, marking the task completed instead of flipping the flag.
ToggledRowMarksCompleted(row, now) ==
    [row EXCEPT !.completed = TRUE, !.updated_at = now]

\* task.completed = not task.completed, then task.save().
ToggledRow(row, now) == [row EXCEPT !.completed = ~row.completed, !.updated_at = now]

\* CreatedRow, owned by the first user.
CreatedRowFirstUser(form, user, now) ==
    Task(form.title, form.description, form.completed, now, now, 1)

\* form.save(commit=False), task.user = request.user, task.save(): the new
\* row, created_at (auto_now_add) and updated_at set by the save.
CreatedRow(form, user, now) ==
    Task(form.title, form.description, form.completed, now, now, user)

\* The Task table with row pk written.
Save(pk, row) == [i \in DOMAIN tasks \cup {pk} |-> IF i = pk THEN row ELSE tasks[i]]

\* Delete, leaving the row stored.
DeleteKeepsRow(pk) == tasks

\* The Task table with row pk deleted.
Delete(pk) == [i \in DOMAIN tasks \ {pk} |-> tasks[i]]

\* Ordered, by updated_at instead of created_at.
RECURSIVE OrderedByUpdatedAt(_)
OrderedByUpdatedAt(ids) ==
    IF ids = {} THEN {<<>>}
    ELSE UNION {{<<i>> \o rest : rest \in OrderedByUpdatedAt(ids \ {i})} :
                  i \in {k \in ids :
                            \A j \in ids : tasks[k].updated_at >= tasks[j].updated_at}}

\* Task.Meta.ordering = ['-created_at']: the orders the database may return
\* the rows of ids in, later created_at first, rows of equal created_at in
\* any order.
RECURSIVE Ordered(_)
Ordered(ids) ==
    IF ids = {} THEN {<<>>}
    ELSE UNION {{<<i>> \o rest : rest \in Ordered(ids \ {i})} :
                  i \in {k \in ids :
                            \A j \in ids : tasks[k].created_at >= tasks[j].created_at}}

\* A sent, non-empty parameter (the truth value of request.GET.get(...)).
QuerySent(query) == query.sent /\ query.text # <<>>

\* ListVisible, without the filter on the requesting user.
ListVisibleAllUsers(user, query, date_from, date_to) ==
    {i \in DOMAIN tasks :
        /\ QuerySent(query) =>
              \/ IContains(tasks[i].title, query.text)
              \/ IContains(tasks[i].description, query.text)
        /\ date_from.kind = "instant" => tasks[i].created_at >= date_from.t
        /\ date_to.kind = "instant" => tasks[i].created_at <= date_to.t}

\* The ids of the queryset task_list builds.
ListVisible(user, query, date_from, date_to) ==
    {i \in DOMAIN tasks :
        /\ tasks[i].user = user
        /\ QuerySent(query) =>
              \/ IContains(tasks[i].title, query.text)
              \/ IContains(tasks[i].description, query.text)
        /\ date_from.kind = "instant" => tasks[i].created_at >= date_from.t
        /\ date_to.kind = "instant" => tasks[i].created_at <= date_to.t}

\* task_list: the requesting user's tasks, filtered by query and dates.
\* A date parameter that is no date raises in the filter call.
TaskList(query, date_from, date_to) ==
    LET req == Request("task_list", "GET", 0, <<query, date_from, date_to>>) IN
    /\ CanStep
    /\ IF session = Anonymous
       THEN last' = LoginRequired(req, Path("task_list", 0))
       ELSE IF date_from = BadDate \/ date_to = BadDate
       THEN last' = ServerError(req)
       ELSE \E listing \in Ordered(ListVisible(session, query, date_from, date_to)) :
               last' = Render(req, "tasks/tasks_list.html", listing)
    /\ UNCHANGED <<users, tasks, nextTaskId, session, clock, inflight>>

\* task_create: POST of a valid form inserts a row owned by request.user.
\* The form takes its three fields from the POST and nothing else.
TaskCreate(method, title, description, completed, user) ==
    LET req == Request("task_create", method, 0, <<title, description, completed, user>>)
        form == TaskFormClean(title, description, completed) IN
    /\ CanStep
    /\ IF session = Anonymous
       THEN /\ last' = LoginRequired(req, Path("task_create", 0))
            /\ UNCHANGED <<tasks, nextTaskId>>
       ELSE IF method = "POST" /\ TaskFormValid(title, description, completed)
       THEN /\ tasks' = Save(nextTaskId, CreatedRow(form, session, clock))
            /\ nextTaskId' = nextTaskId + 1
            /\ last' = Redirect(req, Url("task_list", 0, NoNext))
       ELSE /\ last' = Render(req, "tasks/tasks_form.html", <<>>)
            /\ UNCHANGED <<tasks, nextTaskId>>
    /\ UNCHANGED <<users, session, clock, inflight>>

\* task_update: POST of a valid form saves the form's fields into the row.
TaskUpdate(pk, method, title, description, completed, user) ==
    LET req == Request("task_update", method, pk, <<title, description, completed, user>>)
        form == TaskFormClean(title, description, completed) IN
    /\ CanStep
    /\ IF session = Anonymous
       THEN /\ last' = LoginRequired(req, Path("task_update", pk))
            /\ UNCHANGED tasks
       ELSE IF ~Found(pk, session)
       THEN /\ last' = NotFound(req)
            /\ UNCHANGED tasks
       ELSE IF method = "POST" /\ TaskFormValid(title, description, completed)
       THEN /\ tasks' = Save(pk, UpdatedRow(tasks[pk], form, clock))
            /\ last' = Redirect(req, Url("task_list", 0, NoNext))
       ELSE /\ last' = Render(req, "tasks/tasks_form.html", <<>>)
            /\ UNCHANGED tasks
    /\ UNCHANGED <<users, nextTaskId, session, clock, inflight>>

\* task_delete: POST deletes the row, GET renders the confirmation.
TaskDelete(pk, method) ==
    LET req == Request("task_delete", method, pk, <<>>) IN
    /\ CanStep
    /\ IF session = Anonymous
       THEN /\ last' = LoginRequired(req, Path("task_delete", pk))
            /\ UNCHANGED tasks
       ELSE IF ~Found(pk, session)
       THEN /\ last' = NotFound(req)
            /\ UNCHANGED tasks
       ELSE IF method = "POST"
       THEN /\ tasks' = Delete(pk)
            /\ last' = Redirect(req, Url("task_list", 0, NoNext))
       ELSE /\ last' = Render(req, "tasks/tasks_confirm_delete.html", <<>>)
            /\ UNCHANGED tasks
    /\ UNCHANGED <<users, nextTaskId, session, clock, inflight>>

\* task_toggle_complete: flips completed and saves the row, whatever the
\* request method.
TaskToggleComplete(pk, method) ==
    LET req == Request("task_toggle_complete", method, pk, <<>>) IN
    /\ CanStep
    /\ IF session = Anonymous
       THEN /\ last' = LoginRequired(req, Path("task_toggle_complete", pk))
            /\ UNCHANGED tasks
       ELSE IF ~Found(pk, session)
       THEN /\ last' = NotFound(req)
            /\ UNCHANGED tasks
       ELSE /\ tasks' = Save(pk, ToggledRow(tasks[pk], clock))
            /\ last' = Redirect(req, Url("task_list", 0, NoNext))
    /\ UNCHANGED <<users, nextTaskId, session, clock, inflight>>

\* Time passes between requests.
Tick ==
    /\ CanStep
    /\ clock' = clock + 1
    /\ UNCHANGED <<users, tasks, nextTaskId, session, last, inflight>>

\* Primary keys a URL can name: the rows ever inserted and one never used.
Pks == 1..nextTaskId

TaskNext ==
    \/ \E r \in ListRequests : TaskList(r[1], r[2], r[3])
    \/ \E r \in TaskFormRequests : TaskCreate(r[1], r[2], r[3], r[4], r[5])
    \/ \E pk \in Pks, r \in TaskFormRequests :
          TaskUpdate(pk, r[1], r[2], r[3], r[4], r[5])
    \/ \E pk \in Pks, m \in Methods : TaskDelete(pk, m)
    \/ \E pk \in Pks, m \in Methods : TaskToggleComplete(pk, m)

\* One more request is handled, or time passes.
Next == AuthNext \/ TaskNext \/ Tick

Spec == Init /\ [][Next]_vars

\* The application in use: a user has signed up and is logged in, and
\* created one task some time ago (the state after a signup, a task_create
\* and a tick of Spec).
Populated ==
    /\ users = <<[username |-> "alice", password |-> "pw1"]>>
    /\ tasks = [i \in {1} |-> Task(<<"a">>, <<"b">>, FALSE, 0, 0, 1)]
    /\ nextTaskId = 2
    /\ session = 1
    /\ clock = 1
    /\ last = Render(NoRequest, "", <<>>)
    /\ inflight = [w \in Workers |-> Idle]

\* The requests of Spec, handled from the populated state.
PopulatedSpec == Populated /\ [][Next]_vars

\* ------------------------------------------- requests handled concurrently
\* Two workers handle requests of task_update, task_delete and
\* task_toggle_complete at the same time. The views open no transaction and
\* take no lock: each runs its query (get_object_or_404) and, later, its
\* write (save or delete), and the queries and writes of the two workers
\* interleave.

\* Model.save() of an instance that was read from the table: an UPDATE of
\* every field where the row is stored; where no row is, save() goes on to
\* INSERT the instance under its primary key, and created_at (auto_now_add)
\* is set by that insert.
ModelSave(pk, row, now) ==
    Save(pk, IF pk \in DOMAIN tasks THEN row ELSE [row EXCEPT !.created_at = now])

\* Worker w takes a request and runs the first line of the view,
\* task = get_object_or_404(Task, pk=pk, user=request.user).
GetObjectOr404(w, op, method, pk, data) ==
    LET req == Request(op, method, pk, data) IN
    /\ CanStep
    /\ inflight[w] = Idle
    /\ IF session = Anonymous
       THEN /\ last' = LoginRequired(req, Path(op, pk))
            /\ UNCHANGED inflight
       ELSE IF ~Found(pk, session)
       THEN /\ last' = NotFound(req)
            /\ UNCHANGED inflight
       ELSE /\ inflight' = [inflight EXCEPT ![w] =
                                [op |-> op, method |-> method, pk |-> pk,
                                 data |-> data, task |-> tasks[pk]]]
            /\ UNCHANGED last
    /\ UNCHANGED <<users, tasks, nextTaskId, session, clock>>

\* The rest of task_update: POST of a valid form saves the instance the
\* worker read, with the form's fields.
FinishTaskUpdate(w) ==
    LET r == inflight[w]
        req == Request(r.op, r.method, r.pk, r.data)
        form == TaskFormClean(r.data[1], r.data[2], r.data[3]) IN
    /\ r.op = "task_update"
    /\ IF r.method = "POST" /\ TaskFormValid(r.data[1], r.data[2], r.data[3])
       THEN /\ tasks' = ModelSave(r.pk, UpdatedRow(r.task, form, clock), clock)
            /\ last' = Redirect(req, Url("task_list", 0, NoNext))
       ELSE /\ last' = Render(req, "tasks/tasks_form.html", <<>>)
            /\ UNCHANGED tasks
    /\ inflight' = [inflight EXCEPT ![w] = Idle]
    /\ UNCHANGED <<users, nextTaskId, session, clock>>

\* The rest of task_delete: POST deletes the row of the instance, if it is
\* still stored; GET renders the confirmation.
FinishTaskDelete(w) ==
    LET r == inflight[w]
        req == Request(r.op, r.method, r.pk, r.data) IN
    /\ r.op = "task_delete"
    /\ IF r.method = "POST"
       THEN /\ tasks' = Delete(r.pk)
            /\ last' = Redirect(req, Url("task_list", 0, NoNext))
       ELSE /\ last' = Render(req, "tasks/tasks_confirm_delete.html", <<>>)
            /\ UNCHANGED tasks
    /\ inflight' = [inflight EXCEPT ![w] = Idle]
    /\ UNCHANGED <<users, nextTaskId, session, clock>>

\* The rest of task_toggle_complete: the flag of the instance the worker
\* read is flipped and the instance saved.
FinishTaskToggleComplete(w) ==
    LET r == inflight[w]
        req == Request(r.op, r.method, r.pk, r.data) IN
    /\ r.op = "task_toggle_complete"
    /\ tasks' = ModelSave(r.pk, ToggledRow(r.task, clock), clock)
    /\ last' = Redirect(req, Url("task_list", 0, NoNext))
    /\ inflight' = [inflight EXCEPT ![w] = Idle]
    /\ UNCHANGED <<users, nextTaskId, session, clock>>

ConcurrentNext ==
    \/ \E w \in Workers, pk \in Pks, r \in TaskFormRequests :
          GetObjectOr404(w, "task_update", r[1], pk, <<r[2], r[3], r[4], r[5]>>)
    \/ \E w \in Workers, pk \in Pks, m \in Methods :
          GetObjectOr404(w, "task_delete", m, pk, <<>>)
    \/ \E w \in Workers, pk \in Pks, m \in Methods :
          GetObjectOr404(w, "task_toggle_complete", m, pk, <<>>)
    \/ \E w \in Workers : FinishTaskUpdate(w)
    \/ \E w \in Workers : FinishTaskDelete(w)
    \/ \E w \in Workers : FinishTaskToggleComplete(w)
    \/ Tick

\* The owner's requests on the stored task, handled by the two workers.
ConcurrentSpec == Populated /\ [][ConcurrentNext]_vars

\* ================================================================== claims
\* A step that handles a request of one of the views ops.
Handles(ops) == last'.req.n = last.req.n + 1 /\ last'.req.op \in ops

TaskOps ==
    {"task_list", "task_create", "task_update", "task_delete", "task_toggle_complete"}
FormTemplate == "tasks/tasks_form.html"
ListUrl == Url("task_list", 0, NoNext)
\* The response of a task view that did what was asked: redirect('task_list').
Done(response) == response.status = 302 /\ response.location = ListUrl
HomeUrl == Url("home", 0, NoNext)

\* The fields of a row other than updated_at.
SameButUpdatedAt(a, b) == [a EXCEPT !.updated_at = 0] = [b EXCEPT !.updated_at = 0]

\* Every row other than pk is as it was.
OthersUnchanged(pk) ==
    /\ DOMAIN tasks' = DOMAIN tasks
    /\ \A i \in DOMAIN tasks \ {pk} : tasks'[i] = tasks[i]

\* ---- C1
\* C1: a task list returned to user U holds only tasks owned by U, whatever
\* the query and date filters and whatever requests came before.
C1_ListOnlyOwnTasks ==
    (last.req.op = "task_list" /\ last.status = 200) =>
        \A i \in DOMAIN last.listing :
            /\ last.listing[i] \in DOMAIN tasks
            /\ tasks[last.listing[i]].user = last.req.user

\* A user is shown a non-empty list while another user's task is stored.
C1_Witness ==
    /\ last.req.op = "task_list" /\ last.status = 200
    /\ last.listing # <<>>
    /\ \E i \in DOMAIN tasks : tasks[i].user # last.req.user

\* ---- C2
\* C2: update, delete and toggle_complete by an authenticated user who does
\* not own the task answer 404, exactly as for an id that does not exist, and
\* leave the Task table as it was.
C2_NonOwnerNotFound ==
    [][(/\ Handles({"task_update", "task_delete", "task_toggle_complete"})
        /\ session # Anonymous
        /\ ~(last'.req.pk \in DOMAIN tasks /\ tasks[last'.req.pk].user = session))
       => (/\ last' = NotFound(last'.req)
           /\ tasks' = tasks)]_vars

\* A POST to delete another user's existing task was answered 404.
C2_Witness ==
    /\ last.req.op = "task_delete" /\ last.req.method = "POST"
    /\ last.status = 404
    /\ last.req.pk \in DOMAIN tasks
    /\ last.req.user # Anonymous
    /\ tasks[last.req.pk].user # last.req.user

\* ---- C3
\* C3 as stated: a successful update by the owner leaves completed,
\* created_at and the owner of the task as they were.
C3_UpdateKeepsCompleted ==
    [][(Handles({"task_update"}) /\ Done(last'))
       => (/\ tasks'[last'.req.pk].completed = tasks[last'.req.pk].completed
           /\ tasks'[last'.req.pk].created_at = tasks[last'.req.pk].created_at
           /\ tasks'[last'.req.pk].user = tasks[last'.req.pk].user)]_vars

\* C3 amended: a successful update by the owner writes the form's three
\* fields: title and description as submitted (stripped) and completed as
\* the form's checkbox (true when sent, false when not), and refreshes
\* updated_at; created_at and the owner are as they were, and so is every
\* other task.
C3_UpdateWritesFormFields ==
    [][(Handles({"task_update"}) /\ Done(last'))
       => LET pk == last'.req.pk
              data == last'.req.data IN
          /\ pk \in DOMAIN tasks /\ tasks[pk].user = session
          /\ tasks'[pk] = [title |-> Strip(data[1]),
                           description |-> Strip(data[2]),
                           completed |-> (data[3] = "on"),
                           created_at |-> tasks[pk].created_at,
                           updated_at |-> clock,
                           user |-> tasks[pk].user]
          /\ OthersUnchanged(pk)]_vars

\* A task that was completed was updated with a form without the checkbox,
\* some time after it was created.
C3_Witness ==
    /\ last.req.op = "task_update" /\ Done(last)
    /\ last.req.was /\ last.req.data[3] # "on"
    /\ tasks[last.req.pk].updated_at > tasks[last.req.pk].created_at

\* ---- C4
\* C4: an authenticated POST to create, or to update an own task, whose
\* title is empty (or only white space) re-renders the form without a
\* redirect and leaves the Task table as it was.
C4_EmptyTitleRejected ==
    [][(/\ Handles({"task_create", "task_update"})
        /\ last'.req.method = "POST"
        /\ session # Anonymous
        /\ last'.req.op = "task_update" => Found(last'.req.pk, session)
        /\ Strip(last'.req.data[1]) = <<>>)
       => (/\ last' = Render(last'.req, FormTemplate, <<>>)
           /\ tasks' = tasks
           /\ nextTaskId' = nextTaskId)]_vars

\* The owner posted an update with an empty title to a task.
C4_Witness ==
    /\ last.req.op = "task_update" /\ last.req.method = "POST"
    /\ last.req.data[1] = <<>>
    /\ Found(last.req.pk, last.req.user)
    /\ last.status = 200

\* ---- C5
\* C5: a toggle_complete by the owner flips completed and changes nothing
\* else of the task but updated_at, and no other task; a second toggle right
\* after the first gives completed the value it had before the first.
C5_ToggleFlips ==
    /\ [][(Handles({"task_toggle_complete"}) /\ Found(last'.req.pk, session))
          => LET pk == last'.req.pk IN
             /\ last' = Redirect(last'.req, ListUrl)
             /\ tasks'[pk].completed = ~tasks[pk].completed
             /\ SameButUpdatedAt(tasks'[pk],
                                 [tasks[pk] EXCEPT !.completed = ~tasks[pk].completed])
             /\ OthersUnchanged(pk)]_vars
    /\ [][(/\ Handles({"task_toggle_complete"}) /\ Done(last')
           /\ last.req.op = "task_toggle_complete" /\ Done(last)
           /\ last'.req.pk = last.req.pk)
          => tasks'[last'.req.pk].completed = last.req.was]_vars

\* The second of two toggles in a row made a task completed again.
C5_Witness ==
    /\ last.req.op = "task_toggle_complete" /\ Done(last)
    /\ last.req.again
    /\ ~last.req.was
    /\ tasks[last.req.pk].completed

\* ---- C6
\* C6: a GET or POST of the signup or login page by a session that is logged
\* in is redirected to home, and no user is created and the session stays
\* logged in as the same user.
C6_AuthenticatedRedirectedHome ==
    [][(Handles({"signup", "login"}) /\ session # Anonymous)
       => (/\ last' = Redirect(last'.req, HomeUrl)
           /\ users' = users
           /\ session' = session)]_vars

\* ---- C7
\* C7: an anonymous request to a task view leaves the Task table alone and
\* is redirected to the login page with the requested path as next, whatever
\* the table holds; a login that succeeds with that next parameter is
\* redirected to that path.
C7_LoginRequiredRoundTrip ==
    /\ [][(Handles(TaskOps) /\ session = Anonymous)
          => (/\ tasks' = tasks /\ nextTaskId' = nextTaskId
              /\ session' = Anonymous
              /\ last' = Redirect(last'.req,
                                  Url("login", 0, Path(last'.req.op, last'.req.pk))))]_vars
    /\ [][(/\ Handles({"login"})
           /\ last.req.op \in TaskOps /\ last.req.user = Anonymous
           /\ last'.req.data[3] = last.location.next
           /\ session' # Anonymous)
          => last' = Redirect(last'.req, Url(last.req.op, last.req.pk, NoNext))]_vars

\* After being sent to the login page from the edit page of a task, a login
\* succeeded and was redirected to that edit page.
C7_Witness ==
    /\ last.req.op = "login" /\ last.req.user = Anonymous
    /\ session # Anonymous
    /\ last.req.data[3] = Path("task_update", 1)
    /\ last.status = 302 /\ last.location = Url("task_update", 1, NoNext)

C9_LoginEstablishesSession ==
    [][(Handles({"login"}) /\ last'.req.method = "POST" /\ session = Anonymous)
       => LET name == last'.req.data[1]
              password == last'.req.data[2]
              matching == {u \in DOMAIN users :
                             users[u].username = name /\ users[u].password = password}
          IN IF matching # {}
             THEN /\ session' \in matching
                  /\ last'.status = 302
             ELSE /\ session' = Anonymous
                  /\ last' = Render(last'.req, "authentication/login.html", <<>>)]_vars

\* An anonymous session logged in as the second user, while the first
\* user has another password.
C9_Witness ==
    /\ last.req.op = "login" /\ last.req.user = Anonymous
    /\ session = 2
    /\ users[2].username = last.req.data[1]
    /\ users[2].password = last.req.data[2]
    /\ users[1].password # last.req.data[2]

\* ---- C10
\* C10: a logout, GET or POST, from a session logged in or not, leaves the
\* session anonymous and redirects to home, and changes neither the users
\* nor the tasks.
C10_LogoutClearsSession ==
    [][Handles({"logout"})
       => (/\ session' = Anonymous
           /\ last' = Redirect(last'.req, HomeUrl)
           /\ users' = users /\ tasks' = tasks /\ nextTaskId' = nextTaskId)]_vars

\* A session that was already anonymous logged out, with users and tasks
\* stored.
C10_Witness ==
    /\ last.req.op = "logout" /\ last.req.user = Anonymous
    /\ session = Anonymous
    /\ last.status = 302
    /\ users # <<>> /\ DOMAIN tasks # {}

\* ---- C11
\* C11: a signup POST with a username that is not empty and not taken and two
\* equal passwords adds exactly one user, with the submitted username, and
\* leaves the session logged in as that user; the next request of a task
\* view is then not sent to the login page.
C11_SignupCreatesAndLogsIn ==
    /\ [][(/\ Handles({"signup"}) /\ last'.req.method = "POST"
           /\ last'.req.data[1] # ""
           /\ last'.req.data[2] = last'.req.data[3]
           /\ \A u \in DOMAIN users : users[u].username # last'.req.data[1])
          => (/\ Len(users') = Len(users) + 1
              /\ \A u \in DOMAIN users : users'[u] = users[u]
              /\ users'[Len(users')].username = last'.req.data[1]
              /\ session' = Len(users')
              /\ last'.status = 302)]_vars
    /\ [][(/\ last.req.op = "signup" /\ last.status = 302
           /\ Handles(TaskOps))
          => ~(last'.status = 302 /\ last'.location.view = LoginUrl)]_vars

\* With one user stored, an anonymous session signed a second user up and is
\* now logged in as the second.
C11_Witness ==
    /\ last.req.op = "signup" /\ last.status = 302
    /\ last.req.user = Anonymous
    /\ Len(users) = 2
    /\ users[2].username = last.req.data[1]
    /\ session = 2

\* ---- C12
\* The ids of rows that were inserted and are no longer stored: primary keys
\* are handed out in sequence and never again, and only a delete removes a
\* row.
Deleted == {i \in 1..(nextTaskId - 1) : i \notin DOMAIN tasks}

\* C12: a delete POST by the owner removes the row and no other; a deleted
\* row is never stored again, whatever request follows; update, delete and
\* toggle_complete on its id answer 404 to every user and leave the table as
\* it was; and no list holds its id.
C12_DeletedStaysDeleted ==
    /\ [][(/\ Handles({"task_delete"}) /\ last'.req.method = "POST"
           /\ last'.req.pk \in DOMAIN tasks
           /\ session # Anonymous /\ tasks[last'.req.pk].user = session)
          => (/\ last' = Redirect(last'.req, ListUrl)
              /\ DOMAIN tasks' = DOMAIN tasks \ {last'.req.pk}
              /\ \A i \in DOMAIN tasks' : tasks'[i] = tasks[i])]_vars
    /\ [][\A i \in Deleted : i \notin DOMAIN tasks']_vars
    /\ [][(/\ Handles({"task_update", "task_delete", "task_toggle_complete"})
           /\ session # Anonymous
           /\ last'.req.pk \in Deleted)
          => (last'.status = 404 /\ tasks' = tasks)]_vars
    /\ [](last.req.op = "task_list" =>
             \A k \in DOMAIN last.listing : last.listing[k] \notin Deleted)

\* A user posted a toggle of the id of a deleted task and was answered 404,
\* while another task is stored.
C12_Witness ==
    /\ last.req.op = "task_toggle_complete" /\ last.req.method = "POST"
    /\ last.req.user # Anonymous
    /\ last.req.pk \in Deleted
    /\ last.status = 404
    /\ DOMAIN tasks # {}

\* ---- C13
\* C13: in a task list, of two tasks with different created_at the one
\* created later comes first, whatever was saved to either since.
C13_ListNewestFirst ==
    (last.req.op = "task_list" /\ last.status = 200) =>
        \A i, j \in DOMAIN last.listing :
            (/\ i < j
             /\ tasks[last.listing[i]].created_at # tasks[last.listing[j]].created_at)
            => tasks[last.listing[i]].created_at > tasks[last.listing[j]].created_at

\* A list of two tasks, the one created first saved again after the other
\* was created and last saved, and listed second.
C13_Witness ==
    /\ last.req.op = "task_list" /\ last.status = 200
    /\ Len(last.listing) = 2
    /\ tasks[last.listing[1]].created_at > tasks[last.listing[2]].created_at
    /\ tasks[last.listing[2]].updated_at > tasks[last.listing[1]].updated_at

\* ---- C14
\* text occurs in field when the case of the letters is ignored.
OccursIgnoringCase(field, text) ==
    \E k \in 0..(Len(field) - Len(text)) :
        \A j \in 1..Len(text) : LowerChar(field[k + j]) = LowerChar(text[j])

\* The tasks of user that a list request with this query parameter selects.
Selected(user, query) ==
    {i \in DOMAIN tasks :
        /\ tasks[i].user = user
        /\ (query.sent /\ query.text # <<>>) =>
               \/ OccursIgnoringCase(tasks[i].title, query.text)
               \/ OccursIgnoringCase(tasks[i].description, query.text)}

\* C14: a list request without date filters returns, each once, exactly the
\* requesting user's tasks whose title or description contains the query
\* when case is ignored, and all the user's tasks when the query is not
\* sent or is empty; with date filters it returns none but these.
C14_QuerySelectsExactly ==
    (last.req.op = "task_list" /\ last.status = 200) =>
        LET listed == {last.listing[k] : k \in DOMAIN last.listing}
            selected == Selected(last.req.user, last.req.data[1]) IN
        /\ listed \subseteq selected
        /\ \A k, l \in DOMAIN last.listing : last.listing[k] = last.listing[l] => k = l
        /\ (last.req.data[2] = NoDate /\ last.req.data[3] = NoDate) => listed = selected

\* A user with two tasks searched for "ab" and was shown only the one titled
\* "Ab"; the other has "a" as title and "b" as description.
C14_Witness ==
    /\ last.req.op = "task_list" /\ last.status = 200
    /\ last.req.data = <<Query(<<"a", "b">>), NoDate, NoDate>>
    /\ Len(last.listing) = 1
    /\ tasks[last.listing[1]].title = <<"A", "b">>
    /\ \E i \in DOMAIN tasks :
          /\ tasks[i].user = last.req.user
          /\ tasks[i].title = <<"a">> /\ tasks[i].description = <<"b">>

\* ---- C15
\* C15: with requests handled at the same time, a task that was deleted is
\* never stored again, and an update or toggle_complete that is answered
\* after the delete of its task has written nothing and does not report
\* success.
C15_DeleteNotUndone ==
    /\ [][\A i \in Deleted : i \notin DOMAIN tasks']_vars
    /\ [][(/\ Handles({"task_update", "task_toggle_complete"})
           /\ last'.req.pk \in Deleted)
          => (tasks' = tasks /\ ~Done(last'))]_vars

\* ---- C16
\* C16: with requests handled at the same time, a toggle_complete acts on
\* the row as it is stored when the toggle writes: the write flips the
\* stored completed flag, so that no flip of two toggles is lost, and
\* leaves the stored title and description, so that no update is
\* overwritten with what the toggle read before it.
C16_ReadModifyWriteAtomic ==
    [][(/\ Handles({"task_toggle_complete"}) /\ Done(last')
        /\ last'.req.pk \in DOMAIN tasks)
       => LET pk == last'.req.pk IN
          /\ tasks'[pk].completed = ~tasks[pk].completed
          /\ tasks'[pk].title = tasks[pk].title
          /\ tasks'[pk].description = tasks[pk].description]_vars

\* ---- C17
\* C17: a task is stored only by a create request, owned by the user of the
\* session that sent it and with the time of the request as created_at,
\* also when the request posts a user field; no request changes the owner or
\* the created_at of a stored task; and the owner of every task is a user.
C17_OwnerAndCreatedAtFixed ==
    /\ [][\A i \in DOMAIN tasks' :
            IF i \in DOMAIN tasks
            THEN /\ tasks'[i].user = tasks[i].user
                 /\ tasks'[i].created_at = tasks[i].created_at
            ELSE /\ Handles({"task_create"})
                 /\ session # Anonymous
                 /\ tasks'[i].user = session
                 /\ tasks'[i].created_at = clock]_vars
    /\ [](\A i \in DOMAIN tasks :
             /\ tasks[i].user \in DOMAIN users
             /\ tasks[i].created_at <= tasks[i].updated_at
             /\ tasks[i].updated_at <= clock)

\* The second user posted an update that names the first user in a user
\* field, some time after creating the task; the task is still the second
\* user's.
C17_Witness ==
    /\ last.req.op = "task_update" /\ Done(last)
    /\ last.req.user = 2
    /\ last.req.data[4] = 1
    /\ tasks[last.req.pk].user = 2
    /\ tasks[last.req.pk].created_at < tasks[last.req.pk].updated_at

\* ---- C18
\* C18: a request to toggle_complete or to delete whose method is not POST
\* leaves the Task table as it was.
C18_WritesOnlyOnPost ==
    [][(/\ Handles({"task_toggle_complete", "task_delete"})
        /\ last'.req.method # "POST")
       => tasks' = tasks]_vars

\* ---- C19
\* C19: in a task list, tasks of equal created_at come in the order they
\* were inserted (by primary key), and a list request repeated with the same
\* parameters by the same user, with nothing stored in between, returns the
\* same sequence.
C19_ListDeterministic ==
    /\ []((last.req.op = "task_list" /\ last.status = 200) =>
             \A i, j \in DOMAIN last.listing :
                 (/\ i < j
                  /\ tasks[last.listing[i]].created_at
                       = tasks[last.listing[j]].created_at)
                 => last.listing[i] < last.listing[j])
    /\ [][(/\ Handles({"task_list"}) /\ last'.status = 200
           /\ last.req.op = "task_list" /\ last.status = 200
           /\ last'.req.data = last.req.data
           /\ last'.req.user = last.req.user)
          => last'.listing = last.listing]_vars

====
